---------------------------- MODULE Spec2Model ----------------------------
(***************************************************************************)
(* Data-quality metrics over a tabular dataset: completeness.py,           *)
(* consistency.py and Accuracy.py.  Each script loads one DataFrame and    *)
(* computes per-column and overall figures in a single pass.               *)
(*                                                                         *)
(* A cell is a missing marker (NaN), a number, or a string; strings are    *)
(* sequences of one-character strings so that the regular expression of    *)
(* completeness.py and the float / datetime parsers really inspect them.   *)
(* Floating-point values are modelled as exact rationals [num, den];       *)
(* NaN is the pair with den = 0.  The standard deviation is carried as its *)
(* square (the variance), and a z-score comparison is decided on squares.  *)
(***************************************************************************)
EXTENDS Integers, Sequences, FiniteSets

VARIABLES
    df,                   \* the loaded DataFrame: [nrows, cols]
    z_thresh,             \* args.z_thresh of Accuracy.py
    pc,                   \* "loaded", or the script that has run
    summary_completeness, \* what calculate_completeness returned
    summary_consistency,  \* summary and overall figures of consistency.py
    summary_accuracy      \* summary and overall figures of Accuracy.py

vars == <<df, z_thresh, pc, summary_completeness,
          summary_consistency, summary_accuracy>>

---------------------------------------------------------------------------
(* Bounds of the model *)

\* a generated DataFrame has at most this many cells (rows x columns), so
\* at most this many rows
MaxCells == 4

\* a generated DataFrame has at most this many columns
MaxCols == 2

---------------------------------------------------------------------------
(* Exact rational arithmetic standing for float64 *)

Abs(n) == IF n < 0 THEN -n ELSE n

RECURSIVE GCD(_, _)
GCD(a, b) == IF b = 0 THEN a ELSE GCD(b, a % b)

NaN == [num |-> 0, den |-> 0]

IsNaN(x) == x.den = 0

\* the rational n / d in lowest terms with a positive denominator
Frac(n, d) ==
    IF d = 0 THEN NaN
    ELSE LET g == GCD(Abs(n), Abs(d))
             s == IF d < 0 THEN -1 ELSE 1
         IN  [num |-> (s * n) \div g, den |-> (s * d) \div g]

Int2R(n) == [num |-> n, den |-> 1]

RAdd(x, y) ==
    IF IsNaN(x) \/ IsNaN(y) THEN NaN
    ELSE Frac(x.num * y.den + y.num * x.den, x.den * y.den)

RSub(x, y) ==
    IF IsNaN(x) \/ IsNaN(y) THEN NaN
    ELSE Frac(x.num * y.den - y.num * x.den, x.den * y.den)

RMul(x, y) ==
    IF IsNaN(x) \/ IsNaN(y) THEN NaN
    ELSE Frac(x.num * y.num, x.den * y.den)

\* numpy true division; the only division by zero the scripts reach is 0 / 0
RDiv(x, y) ==
    IF IsNaN(x) \/ IsNaN(y) THEN NaN
    ELSE Frac(x.num * y.den, x.den * y.num)

\* x > y on floats: every comparison with NaN is false
RGreater(x, y) ==
    /\ ~IsNaN(x)
    /\ ~IsNaN(y)
    /\ x.num * y.den > y.num * x.den

RECURSIVE SumSeq(_)
SumSeq(s) == IF s = <<>> THEN 0 ELSE Head(s) + SumSeq(Tail(s))

---------------------------------------------------------------------------
(* Cells, columns, frames *)

NA == [kind |-> "nan", val |-> 0, chars |-> <<>>]

Num(n) == [kind |-> "num", val |-> n, chars |-> <<>>]

Str(s) == [kind |-> "str", val |-> 0, chars |-> s]

Series(dtype, cells) == [dtype |-> dtype, cells |-> cells]

DataFrame(nrows, cols) == [nrows |-> nrows, cols |-> cols]

IsoDate == <<"2", "0", "2", "0", "-", "0", "1", "-", "0", "2">>

\* the cells a generated column draws from
Cells ==
    { NA, Num(1), Num(2),
      Str(<<" ">>), Str(<<"x">>), Str(<<"1">>), Str(IsoDate) }

\* a column read with a numeric dtype (int64 / float64) holds numbers and NaN
\* only; an object column holds anything
ColumnsOfLen(r) ==
    { Series(d, cs) : d \in {"object"}, cs \in [1..r -> Cells] }
    \cup
    { Series(d, cs) : d \in {"numeric"},
                      cs \in [1..r -> {c \in Cells : c.kind # "str"}] }

Shapes ==
    { s \in (0..MaxCells) \X (0..MaxCols) : s[1] * s[2] <= MaxCells }

Frames ==
    UNION { { DataFrame(s[1], cols) : cols \in [1..s[2] -> ColumnsOfLen(s[1])] }
            : s \in Shapes }

\* the scenarios written out in the documentation
CompletenessExample ==
    DataFrame(4, << Series("object",
        << Str(<<"a">>), Str(<<>>), Str(<<" ", " ">>), Str(<<"b">>) >>) >>)

ConsistencyExample ==
    DataFrame(4, << Series("object",
        << Str(<<"1">>), Str(<<"2">>), Str(<<"a", "b", "c">>), Str(<<"4">>) >>) >>)

BoundaryExample ==
    DataFrame(10, << Series("numeric",
        << Num(10), Num(10), Num(10), Num(10), Num(10),
           Num(10), Num(10), Num(10), Num(10), Num(1000) >>) >>)

RegressionExample ==
    DataFrame(5, << Series("numeric",
        << Num(1), Num(2), Num(3), Num(4), Num(100) >>) >>)

ExampleFrames ==
    { CompletenessExample, ConsistencyExample, BoundaryExample,
      RegressionExample }

\* the --z_thresh values tried: negative, zero, below and at the z-score of
\* a two-value column, and the default
Thresholds == { Frac(0 - 1, 1), Frac(0, 1), Frac(3, 4), Frac(1, 1), Frac(3, 1) }

DefaultThreshold == Frac(3, 1)

---------------------------------------------------------------------------
(* pandas primitives shared by the scripts *)

notna(cell) == cell.kind # "nan"

isna(cell) == cell.kind = "nan"

\* Series.notna().sum() / Series.isna().sum()
RECURSIVE CountIf(_, _)
CountIf(flags, i) ==
    IF i = 0 THEN 0
    ELSE (IF flags[i] THEN 1 ELSE 0) + CountIf(flags, i - 1)

notna_sum(series) ==
    CountIf([i \in DOMAIN series.cells |-> notna(series.cells[i])],
            Len(series.cells))

isna_sum(series) ==
    CountIf([i \in DOMAIN series.cells |-> isna(series.cells[i])],
            Len(series.cells))

---------------------------------------------------------------------------
(* completeness.py *)

\* \s of the regular expression
IsWhitespace(ch) == ch \in {" ", "\t", "\n", "\r"}

\* the pattern ^$ instead: only the empty string
MatchesEmptyOnly(chars) == chars = <<>>

\* the pattern ^\s*$
MatchesBlank(chars) == \A i \in 1..Len(chars) : IsWhitespace(chars[i])

\* df.replace(r'^\s*$', pd.NA, regex=True): only strings are matched
replace(frame) ==
    [frame EXCEPT !.cols =
        [c \in DOMAIN frame.cols |->
            [frame.cols[c] EXCEPT !.cells =
                [i \in DOMAIN frame.cols[c].cells |->
                    LET cell == frame.cols[c].cells[i]
                    IN  IF cell.kind = "str" /\ MatchesBlank(cell.chars)
                        THEN NA ELSE cell]]]]

\* Series.mean() of a boolean column: NaN for an empty column
mean_notna(series) ==
    RDiv(Int2R(notna_sum(series)), Int2R(Len(series.cells)))

calculate_completeness(frame) ==
    LET d == replace(frame)
        col_completeness ==
            [c \in DOMAIN d.cols |-> RMul(mean_notna(d.cols[c]), Int2R(100))]
        total_cells == d.nrows * Len(d.cols)
        col_notna == [c \in DOMAIN d.cols |-> notna_sum(d.cols[c])]
        non_null_cells == SumSeq(col_notna)
        overall_completeness ==
            RMul(RDiv(Int2R(non_null_cells), Int2R(total_cells)), Int2R(100))
    IN  [ col_completeness |-> col_completeness,
          col_notna        |-> col_notna,
          total_cells      |-> total_cells,
          non_null_cells   |-> non_null_cells,
          overall          |-> overall_completeness,
          raised           |-> FALSE ]

NoCompleteness ==
    [ col_completeness |-> <<>>, col_notna |-> <<>>, total_cells |-> 0,
      non_null_cells |-> 0, overall |-> NaN, raised |-> FALSE ]

NoConsistency ==
    [ summary |-> <<>>, overall_inconsistent |-> 0, total_cells |-> 0,
      overall_consistency |-> NaN, lenient |-> FALSE ]

NoAccuracy ==
    [ summary |-> <<>>, total_cells |-> 0, missing_cells |-> 0,
      outlier_cells |-> 0, drift_cells |-> 0, correct_cells |-> 0,
      overall_accuracy |-> NaN ]

\* main of completeness.py.  With no column at all, df.notna().sum().sum()
\* is the sum of an empty Series: a NumPy zero (0 / 0 is then NaN) or,
\* where pandas returns a plain int, Python's ZeroDivisionError.
CompletenessMain ==
    /\ pc = "loaded"
    /\ \E raised \in BOOLEAN :
        /\ raised => Len(df.cols) = 0
        /\ summary_completeness' =
              IF raised
              THEN [NoCompleteness EXCEPT !.raised = TRUE]
              ELSE calculate_completeness(df)
    /\ pc' = "completeness"
    /\ UNCHANGED <<df, z_thresh, summary_consistency, summary_accuracy>>

---------------------------------------------------------------------------
(* String parsers *)

IsDigit(ch) == ch \in {"0", "1", "2", "3", "4", "5", "6", "7", "8", "9"}

DigitValue(ch) ==
    CASE ch = "0" -> 0 [] ch = "1" -> 1 [] ch = "2" -> 2 [] ch = "3" -> 3
      [] ch = "4" -> 4 [] ch = "5" -> 5 [] ch = "6" -> 6 [] ch = "7" -> 7
      [] ch = "8" -> 8 [] OTHER -> 9

AllDigits(chars) ==
    /\ Len(chars) > 0
    /\ \A i \in 1..Len(chars) : IsDigit(chars[i])

RECURSIVE DecimalValue(_)
DecimalValue(chars) ==
    IF chars = <<>> THEN 0
    ELSE 10 * DecimalValue(SubSeq(chars, 1, Len(chars) - 1))
         + DigitValue(chars[Len(chars)])

\* str.strip(): leading and trailing whitespace removed
RECURSIVE Strip(_)
Strip(chars) ==
    IF chars = <<>> THEN chars
    ELSE IF IsWhitespace(Head(chars)) THEN Strip(Tail(chars))
    ELSE IF IsWhitespace(chars[Len(chars)])
         THEN Strip(SubSeq(chars, 1, Len(chars) - 1))
    ELSE chars

\* float(s) for the spellings the alphabet allows: surrounding whitespace,
\* an optional sign, then decimal digits.  ok = FALSE is ValueError.
ParseFloat(chars) ==
    LET s == Strip(chars)
        signed == s # <<>> /\ Head(s) \in {"+", "-"}
        body == IF signed THEN Tail(s) ELSE s
    IN  IF AllDigits(body)
        THEN [ok |-> TRUE,
              val |-> IF signed /\ Head(s) = "-"
                      THEN 0 - DecimalValue(body) ELSE DecimalValue(body)]
        ELSE [ok |-> FALSE, val |-> 0]

\* float(x) of one element of an object or numeric column
to_float(cell) ==
    IF cell.kind = "num" THEN [ok |-> TRUE, val |-> cell.val]
    ELSE ParseFloat(cell.chars)

\* YYYY-MM-DD with a month 01..12 and a day 01..31
IsIsoDate(chars) ==
    /\ Len(chars) = 10
    /\ chars[5] = "-"
    /\ chars[8] = "-"
    /\ AllDigits(SubSeq(chars, 1, 4))
    /\ AllDigits(SubSeq(chars, 6, 7))
    /\ AllDigits(SubSeq(chars, 9, 10))
    /\ DecimalValue(SubSeq(chars, 6, 7)) \in 1..12
    /\ DecimalValue(SubSeq(chars, 9, 10)) \in 1..31

---------------------------------------------------------------------------
(* consistency.py *)

\* pd.to_numeric(series, errors='coerce') of one element: TRUE when the
\* result is NaN
to_numeric_isna(cell) ==
    CASE cell.kind = "nan" -> TRUE
      [] cell.kind = "num" -> FALSE
      [] OTHER -> ~ParseFloat(cell.chars).ok

\* pd.to_datetime(series, errors='coerce', infer_datetime_format=True) of
\* one element: TRUE when the result is NaT.  A date string parses and other
\* text does not.  Whether a bare number (the integer 1, the string "1")
\* parses depends on the parsing path the installed pandas takes for the
\* column; lenient is that choice.
to_datetime_isna(cell, lenient) ==
    CASE cell.kind = "nan" -> TRUE
      [] cell.kind = "num" -> ~lenient
      [] OTHER ->
            IF IsIsoDate(Strip(cell.chars)) THEN FALSE
            ELSE IF AllDigits(Strip(cell.chars)) THEN ~lenient
            ELSE TRUE

count_inconsistent_numeric(series) ==
    LET non_missing == [i \in DOMAIN series.cells |-> notna(series.cells[i])]
        coerced_isna ==
            [i \in DOMAIN series.cells |-> to_numeric_isna(series.cells[i])]
        invalid ==
            [i \in DOMAIN series.cells |-> coerced_isna[i] /\ non_missing[i]]
    IN  CountIf(invalid, Len(series.cells))

count_inconsistent_datetime(series, lenient) ==
    LET non_missing == [i \in DOMAIN series.cells |-> notna(series.cells[i])]
        coerced_isna ==
            [i \in DOMAIN series.cells |->
                to_datetime_isna(series.cells[i], lenient)]
        invalid ==
            [i \in DOMAIN series.cells |-> coerced_isna[i] /\ non_missing[i]]
    IN  CountIf(invalid, Len(series.cells))

is_numeric_dtype(series) == series.dtype = "numeric"

\* <= instead of <: a column none of whose values parses is still datetime
datetime_wins_on_tie(non_missing_count, inc_dt) ==
    non_missing_count > 0 /\ inc_dt <= non_missing_count

\* the test of line 57 that chooses datetime over other
datetime_wins(non_missing_count, inc_dt) ==
    non_missing_count > 0 /\ inc_dt < non_missing_count

\* one pass of the loop over the columns (lines 48-65)
consistency_of_column(series, total_rows, lenient) ==
    LET non_missing_count == notna_sum(series)
        inc_dt == count_inconsistent_datetime(series, lenient)
        dtype ==
            IF is_numeric_dtype(series) THEN "numeric"
            ELSE IF datetime_wins(non_missing_count, inc_dt) THEN "datetime"
            ELSE "other"
        inc_count ==
            IF is_numeric_dtype(series) THEN count_inconsistent_numeric(series)
            ELSE IF datetime_wins(non_missing_count, inc_dt) THEN inc_dt
            ELSE 0
        consistency_pct ==
            IF total_rows > 0
            THEN RMul(RDiv(Int2R(total_rows - inc_count), Int2R(total_rows)),
                      Int2R(100))
            ELSE Int2R(0)
    IN  [dtype |-> dtype, inc_count |-> inc_count,
         consistency_pct |-> consistency_pct]

consistency_report(frame, lenient) ==
    LET total_rows == frame.nrows
        summary ==
            [c \in DOMAIN frame.cols |->
                consistency_of_column(frame.cols[c], total_rows, lenient)]
        overall_inconsistent ==
            SumSeq([c \in DOMAIN frame.cols |-> summary[c].inc_count])
        total_cells == total_rows * Len(frame.cols)
        overall_consistency ==
            IF total_cells > 0
            THEN RMul(RDiv(Int2R(total_cells - overall_inconsistent),
                           Int2R(total_cells)), Int2R(100))
            ELSE Int2R(0)
    IN  [ summary |-> summary,
          overall_inconsistent |-> overall_inconsistent,
          total_cells |-> total_cells,
          overall_consistency |-> overall_consistency,
          lenient |-> lenient ]

\* main of consistency.py
ConsistencyMain ==
    /\ pc = "loaded"
    /\ \E lenient \in BOOLEAN :
        summary_consistency' = consistency_report(df, lenient)
    /\ pc' = "consistency"
    /\ UNCHANGED <<df, z_thresh, summary_completeness, summary_accuracy>>

---------------------------------------------------------------------------
(* Accuracy.py *)

\* series.fillna(0) instead: a missing cell stays in the array as 0
fillna_zero(cells) ==
    [i \in 1..Len(cells) |-> IF isna(cells[i]) THEN Num(0) ELSE cells[i]]

\* series.dropna()
dropna(cells) == SelectSeq(cells, notna)

\* coercion value by value instead: what does not parse is left out
astype_float_skipping(cells) ==
    LET parsed == SelectSeq(cells, LAMBDA cell : to_float(cell).ok)
    IN  [ok |-> TRUE,
         values |-> [i \in 1..Len(parsed) |-> Int2R(to_float(parsed[i]).val)]]

\* .astype(float): every element or none; ok = FALSE is the exception
astype_float(cells) ==
    IF \A i \in 1..Len(cells) : to_float(cells[i]).ok
    THEN [ok |-> TRUE,
          values |-> [i \in 1..Len(cells) |-> Int2R(to_float(cells[i]).val)]]
    ELSE [ok |-> FALSE, values |-> <<>>]

RECURSIVE RSum(_)
RSum(s) == IF s = <<>> THEN Int2R(0) ELSE RAdd(Head(s), RSum(Tail(s)))

\* arr.mean()
arr_mean(arr) == RDiv(RSum(arr), Int2R(Len(arr)))

\* the square of arr.std(ddof): mean of squared deviations, divisor N - ddof
arr_var(arr, ddof) ==
    LET m == arr_mean(arr)
        sq == [i \in 1..Len(arr) |-> RMul(RSub(arr[i], m), RSub(arr[i], m))]
    IN  RDiv(RSum(sq), Int2R(Len(arr) - ddof))

\* the square of the z-score of x
z_score_sq(x, m, variance) == RDiv(RMul(RSub(x, m), RSub(x, m)), variance)

\* >= instead of >: a z-score equal to the threshold counts
exceeds_or_equals(zsq, thresh) ==
    /\ ~IsNaN(zsq)
    /\ ~IsNaN(thresh)
    /\ \/ thresh.num < 0
       \/ RGreater(zsq, RMul(thresh, thresh))
       \/ zsq = RMul(thresh, thresh)

\* np.abs(z) > z_thresh, decided on the squares
exceeds(zsq, thresh) ==
    /\ ~IsNaN(zsq)
    /\ ~IsNaN(thresh)
    /\ \/ thresh.num < 0
       \/ RGreater(zsq, RMul(thresh, thresh))

count_outliers(series, thresh) ==
    LET coerced == astype_float(dropna(series.cells))
        arr == coerced.values
    IN  IF ~coerced.ok THEN 0
        ELSE IF Len(arr) = 0 THEN 0
        ELSE LET m == arr_mean(arr)
                 variance == arr_var(arr, 0)
             IN  IF variance = Int2R(0) THEN 0
                 ELSE CountIf([i \in 1..Len(arr) |->
                                 exceeds(z_score_sq(arr[i], m, variance), thresh)],
                              Len(arr))

\* the outliers left out of correct
accuracy_of_column_outliers_ignored(series, total_rows, thresh) ==
    LET missing == isna_sum(series)
        outliers == count_outliers(series, thresh)
        drift_fail == 0
        correct == total_rows - missing - drift_fail
        accuracy ==
            IF total_rows > 0
            THEN RMul(RDiv(Int2R(correct), Int2R(total_rows)), Int2R(100))
            ELSE Int2R(0)
    IN  [missing |-> missing, outliers |-> outliers, drift_fail |-> drift_fail,
         correct |-> correct, accuracy |-> accuracy]

\* one pass of the loop over the columns (lines 48-54)
accuracy_of_column(series, total_rows, thresh) ==
    LET missing == isna_sum(series)
        outliers == count_outliers(series, thresh)
        drift_fail == 0
        correct == total_rows - missing - outliers - drift_fail
        accuracy ==
            IF total_rows > 0
            THEN RMul(RDiv(Int2R(correct), Int2R(total_rows)), Int2R(100))
            ELSE Int2R(0)
    IN  [missing |-> missing, outliers |-> outliers, drift_fail |-> drift_fail,
         correct |-> correct, accuracy |-> accuracy]

\* the overall accuracy taken as the mean of the columns' correct counts
\* over the rows (total_cells without the factor n_cols)
accuracy_report_per_row(frame, thresh) ==
    LET total_rows == frame.nrows
        summary ==
            [c \in DOMAIN frame.cols |->
                accuracy_of_column(frame.cols[c], total_rows, thresh)]
        n_cols == Len(frame.cols)
        total_cells == total_rows
        missing_cells == SumSeq([c \in DOMAIN frame.cols |-> summary[c].missing])
        outlier_cells == SumSeq([c \in DOMAIN frame.cols |-> summary[c].outliers])
        drift_cells == 0
        correct_cells == total_cells - missing_cells - outlier_cells - drift_cells
        overall_accuracy ==
            IF total_cells > 0
            THEN RMul(RDiv(Int2R(correct_cells), Int2R(total_cells)), Int2R(100))
            ELSE Int2R(0)
    IN  [ summary |-> summary,
          total_cells |-> total_cells,
          missing_cells |-> missing_cells,
          outlier_cells |-> outlier_cells,
          drift_cells |-> drift_cells,
          correct_cells |-> correct_cells,
          overall_accuracy |-> overall_accuracy ]

accuracy_report(frame, thresh) ==
    LET total_rows == frame.nrows
        summary ==
            [c \in DOMAIN frame.cols |->
                accuracy_of_column(frame.cols[c], total_rows, thresh)]
        n_cols == Len(frame.cols)
        total_cells == total_rows * n_cols
        missing_cells == SumSeq([c \in DOMAIN frame.cols |-> summary[c].missing])
        outlier_cells == SumSeq([c \in DOMAIN frame.cols |-> summary[c].outliers])
        drift_cells == 0
        correct_cells == total_cells - missing_cells - outlier_cells - drift_cells
        overall_accuracy ==
            IF total_cells > 0
            THEN RMul(RDiv(Int2R(correct_cells), Int2R(total_cells)), Int2R(100))
            ELSE Int2R(0)
    IN  [ summary |-> summary,
          total_cells |-> total_cells,
          missing_cells |-> missing_cells,
          outlier_cells |-> outlier_cells,
          drift_cells |-> drift_cells,
          correct_cells |-> correct_cells,
          overall_accuracy |-> overall_accuracy ]

\* main of Accuracy.py; --z_thresh is the caller's
AccuracyMain ==
    /\ pc = "loaded"
    /\ \E t \in Thresholds :
        /\ z_thresh' = t
        /\ summary_accuracy' = accuracy_report(df, t)
    /\ pc' = "accuracy"
    /\ UNCHANGED <<df, summary_completeness, summary_consistency>>

---------------------------------------------------------------------------
(* The three scripts as one system: a frame is loaded, one script runs *)

Init ==
    /\ df \in Frames \cup ExampleFrames
    /\ z_thresh = DefaultThreshold
    /\ pc = "loaded"
    /\ summary_completeness = NoCompleteness
    /\ summary_consistency = NoConsistency
    /\ summary_accuracy = NoAccuracy

Next ==
    \/ CompletenessMain
    \/ ConsistencyMain
    \/ AccuracyMain

Spec == Init /\ [][Next]_vars

---------------------------------------------------------------------------
(* What the properties below read off the loaded frame, computed from the  *)
(* cells by counting sets rather than by the scripts' own passes           *)

ColumnIds == DOMAIN df.cols

RowIds == 1..df.nrows

CellAt(c, i) == df.cols[c].cells[i]

RECURSIVE SumOver(_, _)
SumOver(f, S) ==
    IF S = {} THEN 0
    ELSE LET x == CHOOSE y \in S : TRUE
         IN  f[x] + SumOver(f, S \ {x})

\* p is the percentage 100 * part / whole
IsPercentOf(p, part, whole) ==
    /\ p.den > 0
    /\ p.num * whole = 100 * part * p.den

AbsentRows(c) == { i \in RowIds : CellAt(c, i).kind = "nan" }

PresentRows(c) == RowIds \ AbsentRows(c)

BlankRows(c) ==
    { i \in RowIds :
        /\ CellAt(c, i).kind = "str"
        /\ \A k \in DOMAIN CellAt(c, i).chars :
              CellAt(c, i).chars[k] \in {" ", "\t", "\n", "\r"} }

Coercible(c) == \A i \in PresentRows(c) : to_float(CellAt(c, i)).ok

ValueAt(c, i) == to_float(CellAt(c, i)).val

ValueSum(c) == SumOver([i \in PresentRows(c) |-> ValueAt(c, i)], PresentRows(c))

SquareSum(c) ==
    SumOver([i \in PresentRows(c) |-> ValueAt(c, i) * ValueAt(c, i)],
            PresentRows(c))

\* N^2 times the population variance of the present values
Spread(c) ==
    Cardinality(PresentRows(c)) * SquareSum(c) - ValueSum(c) * ValueSum(c)

\* |x - mean| / sigma > t for the population mean and sigma, cleared of
\* fractions and roots: (N x - S)^2 > t^2 (N Q - S^2), or t negative
ZScoreAbove(c, i, t) ==
    LET dev == Cardinality(PresentRows(c)) * ValueAt(c, i) - ValueSum(c)
    IN  \/ t.num < 0
        \/ dev * dev * t.den * t.den > t.num * t.num * Spread(c)

DatetimeFailures(c) ==
    { i \in PresentRows(c) :
        to_datetime_isna(CellAt(c, i), summary_consistency.lenient) }

NumericFailures(c) ==
    { i \in PresentRows(c) : to_numeric_isna(CellAt(c, i)) }

---------------------------------------------------------------------------
(* Claims *)

\* C1: after calculate_completeness, every column's non-missing count leaves
\* out exactly the absent cells and the empty or whitespace-only strings,
\* and completeness_pct is non_missing / total_rows * 100 (total_rows > 0);
\* the column ["a", "", "  ", "b"] has 2 missing and 50.0 percent.
C1_Completeness ==
    (pc = "completeness" /\ ~summary_completeness.raised) =>
        /\ \A c \in ColumnIds :
            LET missing == Cardinality(AbsentRows(c) \cup BlankRows(c))
            IN  /\ summary_completeness.col_notna[c] = df.nrows - missing
                /\ df.nrows > 0 =>
                      IsPercentOf(summary_completeness.col_completeness[c],
                                  df.nrows - missing, df.nrows)
        /\ df = CompletenessExample =>
              /\ df.nrows - summary_completeness.col_notna[1] = 2
              /\ summary_completeness.col_completeness[1] = Int2R(50)

C1_Witness ==
    /\ pc = "completeness"
    /\ df = CompletenessExample
    /\ summary_completeness.col_completeness[1] = Int2R(50)

\* C2: for a fully numeric-coercible column with non-zero variance,
\* count_outliers is the number of present values whose absolute z-score
\* (population mean, population standard deviation) is strictly above the
\* threshold; a z-score equal to the threshold is not counted: 0 outliers
\* for [10 x 9, 1000] and for [1, 2, 3, 4, 100] at threshold 3.0.
C2_Outliers ==
    pc = "accuracy" =>
        /\ \A c \in ColumnIds :
            (Coercible(c) /\ Spread(c) # 0) =>
                summary_accuracy.summary[c].outliers =
                    Cardinality({ i \in PresentRows(c) :
                                    ZScoreAbove(c, i, z_thresh) })
        /\ (df \in {BoundaryExample, RegressionExample}
              /\ z_thresh = DefaultThreshold) =>
                summary_accuracy.summary[1].outliers = 0

\* the z-score of 1000 is exactly 3.0 and the run at 3.0 counted nothing,
\* while the run is not one that could count nothing anyway
C2_Witness ==
    /\ pc = "accuracy"
    /\ df = BoundaryExample
    /\ z_thresh = DefaultThreshold
    /\ Spread(1) # 0
    /\ ~ZScoreAbove(1, 10, z_thresh)
    /\ ZScoreAbove(1, 10, Frac(2, 1))
    /\ summary_accuracy.summary[1].outliers = 0

\* C3 (as claimed): with zero rows or zero columns every per-column and
\* overall percentage of the script that ran is a defined 0, and nothing
\* was raised.
C3_EmptyIsZero ==
    (pc # "loaded" /\ df.nrows * Len(df.cols) = 0) =>
        /\ pc = "completeness" =>
              /\ ~summary_completeness.raised
              /\ summary_completeness.overall = Int2R(0)
              /\ \A c \in ColumnIds :
                    summary_completeness.col_completeness[c] = Int2R(0)
        /\ pc = "consistency" =>
              /\ summary_consistency.overall_consistency = Int2R(0)
              /\ \A c \in ColumnIds :
                    summary_consistency.summary[c].consistency_pct = Int2R(0)
        /\ pc = "accuracy" =>
              /\ summary_accuracy.overall_accuracy = Int2R(0)
              /\ \A c \in ColumnIds :
                    summary_accuracy.summary[c].accuracy = Int2R(0)

C5_NumericInconsistent ==
    pc = "consistency" =>
        /\ \A c \in ColumnIds :
            summary_consistency.summary[c].dtype = "numeric" =>
                /\ summary_consistency.summary[c].inc_count =
                      Cardinality(NumericFailures(c))
                /\ df.nrows > 0 =>
                      IsPercentOf(summary_consistency.summary[c].consistency_pct,
                                  df.nrows - Cardinality(NumericFailures(c)),
                                  df.nrows)
        /\ df = ConsistencyExample =>
              /\ summary_consistency.summary[1].dtype = "numeric"
              /\ summary_consistency.summary[1].inc_count = 1
              /\ summary_consistency.summary[1].consistency_pct = Int2R(75)

\* C6: every column is classified numeric, datetime or other; a column whose
\* storage type is not numeric is datetime exactly when it has a present
\* value and fewer datetime-parse failures than present values, and its
\* inconsistent_count is then the failure count; otherwise it is other with
\* inconsistent_count 0.
C6_Classification ==
    pc = "consistency" =>
        \A c \in ColumnIds :
            LET row == summary_consistency.summary[c]
                present == Cardinality(PresentRows(c))
                failures == Cardinality(DatetimeFailures(c))
            IN  /\ row.dtype \in {"numeric", "datetime", "other"}
                /\ df.cols[c].dtype # "numeric" =>
                      /\ row.dtype = "datetime" <=>
                            (present >= 1 /\ failures < present)
                      /\ row.dtype = "datetime" => row.inc_count = failures
                      /\ row.dtype # "datetime" =>
                            (row.dtype = "other" /\ row.inc_count = 0)

\* one column came out datetime with a failure counted, another came out
\* other although every present value of it failed to parse
C6_Witness ==
    /\ pc = "consistency"
    /\ \E c, d \in ColumnIds :
        /\ summary_consistency.summary[c].dtype = "datetime"
        /\ summary_consistency.summary[c].inc_count > 0
        /\ summary_consistency.summary[d].dtype = "other"
        /\ PresentRows(d) # {}
        /\ DatetimeFailures(d) = PresentRows(d)

\* C7: in every column drift_fail_count is 0, correct_count = total_rows -
\* missing_count - outlier_count - drift_fail_count unclamped, with
\* missing_count the number of absent cells, and accuracy_pct =
\* correct_count / total_rows * 100 when total_rows > 0.
C7_Correct ==
    pc = "accuracy" =>
        \A c \in ColumnIds :
            LET row == summary_accuracy.summary[c]
            IN  /\ row.drift_fail = 0
                /\ row.missing = Cardinality(AbsentRows(c))
                /\ row.correct =
                      df.nrows - row.missing - row.outliers - row.drift_fail
                /\ df.nrows > 0 =>
                      IsPercentOf(row.accuracy, row.correct, df.nrows)

C7_Witness ==
    /\ pc = "accuracy"
    /\ \E c \in ColumnIds :
        /\ summary_accuracy.summary[c].missing > 0
        /\ summary_accuracy.summary[c].outliers > 0
        /\ summary_accuracy.summary[c].correct > 0
        /\ summary_accuracy.summary[c].correct < df.nrows

\* C8: the overall figures are cell counts summed over the columns, over
\* total_cells = rows x columns: overall missing, outlier and inconsistent
\* cells are the sums of the per-column counts, overall correct_cells is the
\* sum of the per-column correct_count, and each overall percentage is its
\* cell count / total_cells * 100 (total_cells > 0).
C8_Aggregation ==
    /\ pc = "accuracy" =>
        LET rows == summary_accuracy.summary
        IN  /\ summary_accuracy.total_cells = df.nrows * Cardinality(ColumnIds)
            /\ summary_accuracy.missing_cells =
                  SumOver([c \in ColumnIds |-> rows[c].missing], ColumnIds)
            /\ summary_accuracy.outlier_cells =
                  SumOver([c \in ColumnIds |-> rows[c].outliers], ColumnIds)
            /\ summary_accuracy.correct_cells =
                  SumOver([c \in ColumnIds |-> rows[c].correct], ColumnIds)
            /\ summary_accuracy.total_cells > 0 =>
                  IsPercentOf(summary_accuracy.overall_accuracy,
                              summary_accuracy.correct_cells,
                              summary_accuracy.total_cells)
    /\ pc = "consistency" =>
        LET rows == summary_consistency.summary
            inconsistent == SumOver([c \in ColumnIds |-> rows[c].inc_count],
                                    ColumnIds)
        IN  /\ summary_consistency.total_cells =
                  df.nrows * Cardinality(ColumnIds)
            /\ summary_consistency.overall_inconsistent = inconsistent
            /\ summary_consistency.total_cells > 0 =>
                  IsPercentOf(summary_consistency.overall_consistency,
                              summary_consistency.total_cells - inconsistent,
                              summary_consistency.total_cells)
    /\ (pc = "completeness" /\ ~summary_completeness.raised) =>
        LET present ==
                { p \in ColumnIds \X RowIds :
                    p[2] \notin AbsentRows(p[1]) \cup BlankRows(p[1]) }
        IN  /\ summary_completeness.total_cells =
                  df.nrows * Cardinality(ColumnIds)
            /\ summary_completeness.non_null_cells = Cardinality(present)
            /\ summary_completeness.total_cells > 0 =>
                  IsPercentOf(summary_completeness.overall,
                              Cardinality(present),
                              summary_completeness.total_cells)

\* two columns that differ: one with outliers counted, one with a missing
\* cell and a correct one
C8_Witness ==
    /\ pc = "accuracy"
    /\ \E c, d \in ColumnIds :
        /\ c # d
        /\ summary_accuracy.summary[c].outliers > 0
        /\ summary_accuracy.summary[d].missing > 0
        /\ summary_accuracy.summary[d].correct > 0
        /\ summary_accuracy.correct_cells > 0
        /\ summary_accuracy.correct_cells < summary_accuracy.total_cells

\* C9 (as claimed): a column whose N cells are all missing, for every N, has
\* outlier_count 0, inconsistent_count 0 and completeness_pct 0.0.
C9_AllMissing ==
    \A c \in ColumnIds :
        AbsentRows(c) = RowIds =>
            /\ pc = "accuracy" => summary_accuracy.summary[c].outliers = 0
            /\ pc = "consistency" => summary_consistency.summary[c].inc_count = 0
            /\ (pc = "completeness" /\ ~summary_completeness.raised) =>
                  summary_completeness.col_completeness[c] = Int2R(0)

\* C10 (as claimed): for some column and threshold the rows counted missing
\* and the rows counted as outliers overlap, and correct_count = total_rows
\* - missing_count - outlier_count is negative.
C10_NegativeCorrect ==
    \E r \in 0..MaxCells :
        \E series \in ColumnsOfLen(r) :
            \E t \in Thresholds \cup {z_thresh} :
                accuracy_of_column(series, r, t).correct < 0

\* C10 (amended): outliers are counted among the present values only, so
\* missing_count + outlier_count never exceeds total_rows and correct_count
\* is never negative.
C10_NeverNegative ==
    pc = "accuracy" =>
        \A c \in ColumnIds :
            LET row == summary_accuracy.summary[c]
            IN  /\ row.outliers <= Cardinality(PresentRows(c))
                /\ row.missing + row.outliers <= df.nrows
                /\ row.correct >= 0

\* a column with a missing cell whose every present value is an outlier:
\* correct_count is down to 0 and no lower
C10_Witness ==
    /\ pc = "accuracy"
    /\ \E c \in ColumnIds :
        /\ summary_accuracy.summary[c].missing > 0
        /\ summary_accuracy.summary[c].outliers = Cardinality(PresentRows(c))
        /\ summary_accuracy.summary[c].outliers > 0
        /\ summary_accuracy.summary[c].correct = 0

=============================================================================
